---- MODULE Spec2Model ----
(***************************************************************************)
(* Model of the reconciliation loop of k8s-spot-price-monitor              *)
(* (src/spot_price_monitor/spot_price_monitor.py).                         *)
(*                                                                         *)
(* Python strings that the program takes apart (the spot label, zone       *)
(* names) are sequences of one-character strings; a Python dict is a       *)
(* function whose DOMAIN is the set of its keys; a raised exception is a   *)
(* result record with exc # "none".  Time is in whole seconds.             *)
(*                                                                         *)
(* The cluster and the provider either answer or, for the provider, raise  *)
(* a ClientError; the pricing feed answers 200, answers another status or  *)
(* fails in transport.  Other exceptions of the client libraries are left  *)
(* out.  Dicts iterate in insertion order.                                 *)
(***************************************************************************)
EXTENDS Integers, Sequences, FiniteSets, TLC

VARIABLES
    pc,                     \* position of main()
    exception,              \* the exception that ended the process, or "none"
    args,                   \* parsed command line (get_args)
    now,                    \* time.time()
    last_ondemand_update,   \* main's last_ondemand_update (an int, or None)
    backoff_multiplier,     \* main's backoff_multiplier
    zones,                  \* main's zones
    types,                  \* main's types
    spot_prices,            \* main's spot_prices
    spot_gauge,             \* Gauge aws_spot_price_dollars_per_hour
    on_demand_spot_gauge,   \* Gauge aws_on_demand_dollars_per_hour
    spot_error,             \* Counter aws_spot_price_request_errors
    local_update,           \* update_ondemand_prices' local last_ondemand_update
    tries,                  \* iterations started by get_ondemand_prices_from_api
    sleep_duration,         \* argument of the last end-of-cycle time.sleep
    call,                   \* the last call of a function applied on its own
    hist                    \* history of the run, for stating properties only

vars == <<pc, exception, args, now, last_ondemand_update, backoff_multiplier,
          zones, types, spot_prices, spot_gauge, on_demand_spot_gauge,
          spot_error, local_update, tries, sleep_duration, call, hist>>

----------------------------------------------------------------------------
(* Bounds of the model *)

\* the loop is followed for this many cycles
MaxCycles == 2

\* extra seconds a cycle may take on top of its sleep (calls, scheduling)
MaxLatency == 1

\* derive_region is applied to the strings of at most this length
MaxZoneLen == 3

(* Program constants *)

\* update_ondemand_prices: last_ondemand_update + 86400 < time.time()
RefreshSeconds == 86400

\* get_ondemand_price_metrics(num_of_retries=5, time_interval=2, timeout=5)
num_of_retries == 5

time_interval == 2

\* Python's None, as a value that is no time
None == -1

\* the clock at start-up (a Unix time of the 2020s)
StartTimes == {1700000000}

----------------------------------------------------------------------------
(* Strings *)

LowerCase == {"a", "b", "c", "d", "e", "f", "g", "h", "i", "j", "k", "l", "m",
              "n", "o", "p", "q", "r", "s", "t", "u", "v", "w", "x", "y", "z"}

ZONE_LABEL == <<"z", "o", "n", "e">>           \* failure-domain.beta.kubernetes.io/zone
INSTANCE_TYPE_LABEL == <<"t", "y", "p", "e">>  \* beta.kubernetes.io/instance-type
ROLE_LABEL == <<"r", "o", "l", "e">>           \* kubernetes.io/role
SPOT_WORKER == <<"s", "p", "o", "t">>          \* spot-worker, also node-role.../spot-worker
WORKER == <<"w", "k">>

M5 == <<"m", "5">>
C5 == <<"c", "5">>
ZoneA == <<"e", "1", "a">>
ZoneB == <<"e", "1", "b">>
RegionE1 == <<"e", "1">>

ALLOWED_PRODUCTS == {"Linux/UNIX", "SUSE Linux", "Windows",
                     "Linux/UNIX (Amazon VPC)", "SUSE Linux (Amazon VPC)",
                     "Windows (Amazon VPC)"}

\* results of the functions that can raise
Return(v) == [exc |-> "none", val |-> v]
Raise(e) == [exc |-> e, val |-> None]

\* index of the first "=" of s, 0 when there is none
RECURSIVE FindEq(_, _)
FindEq(s, i) ==
    IF i > Len(s) THEN 0
    ELSE IF s[i] = "=" THEN i
    ELSE FindEq(s, i + 1)

\* label.split("=", maxsplit)
RECURSIVE split(_, _)
split(s, maxsplit) ==
    LET i == FindEq(s, 1) IN
    IF maxsplit = 0 \/ i = 0 THEN <<s>>
    ELSE <<SubSeq(s, 1, i - 1)>> \o split(SubSeq(s, i + 1, Len(s)), maxsplit - 1)

\* a substitution that removes every trailing lowercase letter: r"[a-z]+$"
RECURSIVE derive_region_AllTrailing(_)
derive_region_AllTrailing(zone) ==
    IF Len(zone) >= 1 /\ zone[Len(zone)] \in LowerCase
    THEN derive_region_AllTrailing(SubSeq(zone, 1, Len(zone) - 1))
    ELSE zone

\* re.sub(r"[a-z]$", "", zone): "$" matches at the end of the string and
\* also just before a newline that ends the string
derive_region(zone) ==
    LET n == Len(zone) IN
    IF n >= 1 /\ zone[n] \in LowerCase THEN SubSeq(zone, 1, n - 1)
    ELSE IF n >= 2 /\ zone[n] = "\n" /\ zone[n - 1] \in LowerCase
         THEN SubSeq(zone, 1, n - 2) \o <<"\n">>
    ELSE zone

----------------------------------------------------------------------------
(* Cluster inventory *)

\* a matcher that looks at the key only, whatever the value asked for
matches_label_KeyOnly(label, node_labels) ==
    Return(split(label, 2)[1] \in DOMAIN node_labels)

matches_label(label, node_labels) ==
    LET parts == split(label, 2) IN
    IF Len(parts) = 1 THEN Return(label \in DOMAIN node_labels)
    ELSE IF Len(parts) = 2
         THEN IF parts[1] \in DOMAIN node_labels
              THEN Return(node_labels[parts[1]] = parts[2])
              ELSE Raise("KeyError")
    ELSE Return(FALSE)

get_zones_from_k8s(nodes) ==
    IF \E node \in nodes : ZONE_LABEL \notin DOMAIN node
    THEN Raise("KeyError")
    ELSE Return({node[ZONE_LABEL] : node \in nodes})

get_instance_types_from_k8s(nodes, label) ==
    IF \E node \in nodes :
          \/ matches_label(label, node).exc # "none"
          \/ /\ matches_label(label, node).val = TRUE
             /\ INSTANCE_TYPE_LABEL \notin DOMAIN node
    THEN Raise("KeyError")
    ELSE Return({node[INSTANCE_TYPE_LABEL] :
                   node \in {m \in nodes : matches_label(label, m).val = TRUE}})

----------------------------------------------------------------------------
(* Dicts and metrics *)

EmptyDict == [k \in {} |-> 0]

\* d[key] = value
SetItem(d, key, value) ==
    [k \in DOMAIN d \cup {key} |-> IF k = key THEN value ELSE d[k]]

\* a gauge whose series are incremented by the value: .inc(value)
GaugeSet_Add(metric, instance_type, availability_zone, value) ==
    LET key == <<instance_type, availability_zone>> IN
    [k \in DOMAIN metric \cup {key} |->
        IF k = key THEN (IF k \in DOMAIN metric THEN metric[k] ELSE 0) + value
        ELSE metric[k]]

\* Gauge.labels(instance_type, availability_zone).set(value)
GaugeSet(metric, instance_type, availability_zone, value) ==
    SetItem(metric, <<instance_type, availability_zone>>, value)

\* a counter incremented twice
CounterInc_Twice(metric, code) ==
    [k \in DOMAIN metric \cup {code} |->
        IF k = code THEN (IF k \in DOMAIN metric THEN metric[k] ELSE 0) + 2
        ELSE metric[k]]

\* Counter.labels(code).inc()
CounterInc(metric, code) ==
    SetItem(metric, code, IF code \in DOMAIN metric THEN metric[code] + 1 ELSE 1)

\* value of a counter series (0 while the series does not exist)
CounterValue(metric, code) == IF code \in DOMAIN metric THEN metric[code] ELSE 0

\* a projection that first drops the series of the cycles before
RECURSIVE update_spot_price_metrics_Fresh(_, _)
update_spot_price_metrics_Fresh(metric, prices) ==
    IF prices = <<>> THEN EmptyDict
    ELSE LET last == prices[Len(prices)] IN
         [k \in DOMAIN update_spot_price_metrics_Fresh(
                        metric, SubSeq(prices, 1, Len(prices) - 1))
                 \cup {<<last.InstanceType, last.AvailabilityZone>>} |->
             IF k = <<last.InstanceType, last.AvailabilityZone>>
             THEN last.SpotPrice
             ELSE update_spot_price_metrics_Fresh(
                      metric, SubSeq(prices, 1, Len(prices) - 1))[k]]

RECURSIVE update_spot_price_metrics(_, _)
update_spot_price_metrics(metric, prices) ==
    IF prices = <<>> THEN metric
    ELSE update_spot_price_metrics(
             GaugeSet(metric, Head(prices).InstanceType,
                      Head(prices).AvailabilityZone, Head(prices).SpotPrice),
             Tail(prices))

\* keys of the dict built by "d[price[field]] = 1" over prices, in insertion order
RECURSIVE DictKeys(_, _, _)
DictKeys(prices, field, acc) ==
    IF prices = <<>> THEN acc
    ELSE DictKeys(Tail(prices), field,
                  IF \E i \in 1..Len(acc) : acc[i] = Head(prices)[field]
                  THEN acc ELSE Append(acc, Head(prices)[field]))

price_zones(prices) == DictKeys(prices, "AvailabilityZone", <<>>)

price_instance_types(prices) == DictKeys(prices, "InstanceType", <<>>)

\* the pairs update_ondemand_price_metrics visits, in the order it visits them
RECURSIVE OndemandPairs(_, _, _)
OndemandPairs(ts, zs, i) ==
    IF i > Len(zs) THEN <<>>
    ELSE [j \in 1..Len(ts) |-> <<ts[j], zs[i]>>] \o OndemandPairs(ts, zs, i + 1)

\* prices[region][instance_type] exists
InTable(prices, instance_type, zone) ==
    /\ derive_region(zone) \in DOMAIN prices
    /\ instance_type \in DOMAIN prices[derive_region(zone)]

\* the loop body of update_ondemand_price_metrics over the pairs left to visit;
\* a KeyError leaves the series set so far in place
RECURSIVE OndemandLoop(_, _, _)
OndemandLoop(metric, prices, pairs) ==
    IF pairs = <<>> THEN Return(metric)
    ELSE LET instance_type == Head(pairs)[1]
             zone == Head(pairs)[2]
         IN  IF InTable(prices, instance_type, zone)
             THEN OndemandLoop(
                      GaugeSet(metric, instance_type, zone,
                               prices[derive_region(zone)][instance_type]),
                      prices, Tail(pairs))
             ELSE [exc |-> "KeyError", val |-> metric]

update_ondemand_price_metrics(metric, prices, ts, zs) ==
    OndemandLoop(metric, prices, OndemandPairs(ts, zs, 1))

\* one iteration of the outer loop of get_ondemand_price_metrics
ParseEntry(on_demand_prices, instance_type) ==
    LET pricing == instance_type.pricing IN
    [region \in DOMAIN on_demand_prices \cup DOMAIN pricing |->
        LET old == IF region \in DOMAIN on_demand_prices
                   THEN on_demand_prices[region] ELSE EmptyDict
        IN  IF /\ region \in DOMAIN pricing
               /\ "linux" \in DOMAIN pricing[region]
               /\ "ondemand" \in DOMAIN pricing[region]["linux"]
            THEN SetItem(old, instance_type.instance_type,
                         pricing[region]["linux"]["ondemand"])
            ELSE old]

\* get_ondemand_price_metrics, after the response has been returned
RECURSIVE ParseFeed(_, _)
ParseFeed(on_demand_prices, parsed_json) ==
    IF parsed_json = <<>> THEN on_demand_prices
    ELSE ParseFeed(ParseEntry(on_demand_prices, Head(parsed_json)), Tail(parsed_json))

get_ondemand_price_metrics(parsed_json) == ParseFeed(EmptyDict, parsed_json)

\* a refresh that is due as soon as the interval has elapsed
RefreshDue_Inclusive(last, t) == last + RefreshSeconds <= t

\* a gate that takes the initial 0 for a fresh table
RefreshDue_SkipsFirst(last, t) == last # 0 /\ last + RefreshSeconds < t

\* update_ondemand_prices: the refresh is due
RefreshDue(last, t) == last + RefreshSeconds < t

----------------------------------------------------------------------------
(* The environment: clusters, provider answers, pricing feeds *)

SpotNodeA == (ZONE_LABEL :> ZoneA) @@ (INSTANCE_TYPE_LABEL :> M5)
             @@ (ROLE_LABEL :> SPOT_WORKER) @@ (SPOT_WORKER :> <<>>)
SpotNodeB == (ZONE_LABEL :> ZoneB) @@ (INSTANCE_TYPE_LABEL :> C5)
             @@ (ROLE_LABEL :> SPOT_WORKER) @@ (SPOT_WORKER :> <<>>)
WorkerNode == (ZONE_LABEL :> ZoneB) @@ (INSTANCE_TYPE_LABEL :> C5)
              @@ (ROLE_LABEL :> WORKER)
NoZoneNode == (INSTANCE_TYPE_LABEL :> M5) @@ (ROLE_LABEL :> WORKER)
NoRoleNode == (ZONE_LABEL :> ZoneB) @@ (INSTANCE_TYPE_LABEL :> C5)
NoTypeNode == (ZONE_LABEL :> ZoneB) @@ (ROLE_LABEL :> SPOT_WORKER)
              @@ (SPOT_WORKER :> <<>>)

\* what list_node can return
Clusters == { {SpotNodeA, WorkerNode}, {SpotNodeA, SpotNodeB},
              {SpotNodeA, WorkerNode, NoZoneNode}, {SpotNodeA, NoRoleNode},
              {SpotNodeA, WorkerNode, NoTypeNode} }

Sample(t, z, p, d) ==
    [InstanceType |-> t, AvailabilityZone |-> z, SpotPrice |-> p,
     ProductDescription |-> d]

\* what describe_spot_price_history can return, before its filters
SpotHistories ==
    { <<>>,
      <<Sample(M5, ZoneA, 1, "Linux/UNIX")>>,
      <<Sample(M5, ZoneA, 2, "Linux/UNIX"), Sample(C5, ZoneB, 1, "Linux/UNIX")>>,
      <<Sample(M5, ZoneA, 1, "Linux/UNIX"), Sample(M5, ZoneA, 2, "Windows")>> }

\* the answers that satisfy the filters of get_spot_prices
get_spot_prices(instance_types, availability_zones, products) ==
    { h \in SpotHistories :
        \A i \in 1..Len(h) :
            /\ h[i].InstanceType \in instance_types
            /\ h[i].AvailabilityZone \in availability_zones
            /\ \E j \in 1..Len(products) : products[j] = h[i].ProductDescription }

\* error codes of a botocore ClientError
ErrorCodes == {"RequestLimitExceeded", "InternalError"}

FeedEntry(t, pricing) == [instance_type |-> t, pricing |-> pricing]

Linux(p) == "linux" :> ("ondemand" :> p)

\* documents the pricing feed can return with status 200
Feeds ==
    { <<FeedEntry(M5, RegionE1 :> Linux(3)), FeedEntry(C5, RegionE1 :> Linux(4))>>,
      <<FeedEntry(M5, RegionE1 :> Linux(3)),
        FeedEntry(C5, RegionE1 :> ("mswin" :> ("ondemand" :> 5)))>>,
      <<>> }

\* command lines
SpotLabels == { ROLE_LABEL \o <<"=">> \o SPOT_WORKER,
                SPOT_WORKER,
                <<"a", "=", "b", "=", "c">> }

ProductLists == { <<"Linux/UNIX">>, <<"Linux/UNIX", "Windows">>,
                  <<"Linux/UNIX", "BSD">> }

ScrapeIntervals == {86399}

----------------------------------------------------------------------------
(* main *)

Init ==
    /\ pc = "startup"
    /\ exception = "none"
    /\ args \in [spot_label : SpotLabels, products : ProductLists,
                 on_demand : BOOLEAN, scrape_interval : ScrapeIntervals]
    /\ now \in StartTimes
    /\ last_ondemand_update = 0
    /\ backoff_multiplier = 1
    /\ zones = {}
    /\ types = {}
    /\ spot_prices = <<>>
    /\ spot_gauge = EmptyDict
    /\ on_demand_spot_gauge = EmptyDict
    /\ spot_error = EmptyDict
    /\ local_update = 0
    /\ tries = 0
    /\ sleep_duration = 0
    /\ call = [fn |-> "none"]
    /\ hist = [cycle |-> 0, limited |-> 0, fetch |-> "none", refresh |-> "none", cause |-> "none",
               backoff_before |-> 1, errors_before |-> EmptyDict,
               last_before |-> 0, eval_at |-> 0, failed_at |-> 0,
               spot_before |-> EmptyDict, ondemand_before |-> EmptyDict,
               table |-> EmptyDict]

\* an exception nobody catches ends the process
Terminate(e) ==
    /\ pc' = "terminated"
    /\ exception' = e

\* a check that looks at the first product only
check_allowed_products_FirstOnly(products) ==
    IF products[1] \notin ALLOWED_PRODUCTS THEN Raise("ValueError") ELSE Return(None)

\* main, up to the loop: the checks of the command line
check_allowed_products(products) ==
    IF \E i \in 1..Len(products) : products[i] \notin ALLOWED_PRODUCTS
    THEN Raise("ValueError") ELSE Return(None)

\* main: if len(args.spot_label.split("=", 2)) > 2: raise ValueError
check_spot_label(spot_label) ==
    IF Len(split(spot_label, 2)) > 2 THEN Raise("ValueError") ELSE Return(None)

StartupOk ==
    /\ pc = "startup"
    /\ check_spot_label(args.spot_label).exc = "none"
    /\ check_allowed_products(args.products).exc = "none"
    /\ pc' = "get_zones"
    /\ UNCHANGED <<call, exception, args, now, last_ondemand_update, backoff_multiplier,
                   zones, types, spot_prices, spot_gauge, on_demand_spot_gauge,
                   spot_error, local_update, tries, sleep_duration, hist>>

StartupError ==
    /\ pc = "startup"
    /\ \/ check_spot_label(args.spot_label).exc # "none"
       \/ check_allowed_products(args.products).exc # "none"
    /\ Terminate("ValueError")
    /\ UNCHANGED <<call, args, now, last_ondemand_update, backoff_multiplier,
                   zones, types, spot_prices, spot_gauge, on_demand_spot_gauge,
                   spot_error, local_update, tries, sleep_duration, hist>>

\* history: a cycle starts; what the loop holds at that moment
CycleStart ==
    [hist EXCEPT !.cycle = @ + 1, !.fetch = "none", !.refresh = "none",
                 !.cause = "none",
                 !.backoff_before = backoff_multiplier,
                 !.errors_before = spot_error,
                 !.last_before = last_ondemand_update,
                 !.spot_before = spot_gauge,
                 !.ondemand_before = on_demand_spot_gauge,
                 !.table = EmptyDict]

\* zones = get_zones_from_k8s(k8s_client)
GetZones ==
    /\ pc = "get_zones"
    /\ \E nodes \in Clusters :
          /\ get_zones_from_k8s(nodes).exc = "none"
          /\ zones' = get_zones_from_k8s(nodes).val
    /\ pc' = "get_spot"
    /\ hist' = CycleStart
    /\ UNCHANGED <<call, exception, args, now, last_ondemand_update, backoff_multiplier,
                   types, spot_prices, spot_gauge, on_demand_spot_gauge,
                   spot_error, local_update, tries, sleep_duration>>

\* the KeyError of get_zones_from_k8s is raised outside every try
GetZonesKeyError ==
    /\ pc = "get_zones"
    /\ \E nodes \in Clusters : get_zones_from_k8s(nodes).exc = "KeyError"
    /\ Terminate("KeyError")
    /\ hist' = CycleStart
    /\ UNCHANGED <<call, args, now, last_ondemand_update, backoff_multiplier,
                   zones, types, spot_prices, spot_gauge, on_demand_spot_gauge,
                   spot_error, local_update, tries, sleep_duration>>

\* the try block succeeds
SpotSuccess ==
    /\ pc = "get_spot"
    /\ \E nodes \in Clusters :
          /\ get_instance_types_from_k8s(nodes, args.spot_label).exc = "none"
          /\ types' = get_instance_types_from_k8s(nodes, args.spot_label).val
    /\ spot_prices' \in get_spot_prices(types', zones, args.products)
    /\ backoff_multiplier' = 1
    /\ pc' = "project_spot"
    /\ hist' = [hist EXCEPT !.fetch = "ok", !.limited = 0]
    /\ UNCHANGED <<call, exception, args, now, last_ondemand_update, zones, spot_gauge,
                   on_demand_spot_gauge, spot_error, local_update, tries,
                   sleep_duration>>

\* an except branch that never doubles
BackoffOnError_NoDoubling(code, multiplier) == multiplier

\* an except branch that doubles on every ClientError
BackoffOnError_AlwaysDoubling(code, multiplier) == multiplier * 2

\* an except branch whose doubling stops at 2
BackoffOnError_Capped(code, multiplier) ==
    IF code = "RequestLimitExceeded" /\ multiplier < 2 THEN multiplier * 2
    ELSE multiplier

\* the except branch: the multiplier after a ClientError with this code
BackoffOnError(code, multiplier) ==
    IF code = "RequestLimitExceeded" THEN multiplier * 2 ELSE multiplier

\* get_spot_prices raises a ClientError
SpotClientError ==
    /\ pc = "get_spot"
    /\ \E nodes \in Clusters :
          /\ get_instance_types_from_k8s(nodes, args.spot_label).exc = "none"
          /\ types' = get_instance_types_from_k8s(nodes, args.spot_label).val
    /\ \E code \in ErrorCodes :
          /\ spot_error' = CounterInc(spot_error, code)
          /\ backoff_multiplier' = BackoffOnError(code, backoff_multiplier)
          /\ hist' = [hist EXCEPT !.fetch = code,
                                  !.limited = IF code = "RequestLimitExceeded"
                                              THEN @ + 1 ELSE @]
    /\ pc' = "project_spot"
    /\ UNCHANGED <<call, exception, args, now, last_ondemand_update, zones, spot_prices,
                   spot_gauge, on_demand_spot_gauge, local_update, tries,
                   sleep_duration>>

\* a KeyError of get_instance_types_from_k8s is not a ClientError
SpotKeyError ==
    /\ pc = "get_spot"
    /\ \E nodes \in Clusters :
          get_instance_types_from_k8s(nodes, args.spot_label).exc = "KeyError"
    /\ Terminate("KeyError")
    /\ UNCHANGED <<call, args, now, last_ondemand_update, backoff_multiplier,
                   zones, types, spot_prices, spot_gauge, on_demand_spot_gauge,
                   spot_error, local_update, tries, sleep_duration, hist>>

\* update_spot_price_metrics(spot_gauge, spot_prices)
ProjectSpot ==
    /\ pc = "project_spot"
    /\ spot_gauge' = update_spot_price_metrics(spot_gauge, spot_prices)
    /\ pc' = "ondemand"
    /\ UNCHANGED <<call, exception, args, now, last_ondemand_update, backoff_multiplier,
                   zones, types, spot_prices, on_demand_spot_gauge,
                   spot_error, local_update, tries, sleep_duration, hist>>

----------------------------------------------------------------------------
(* update_ondemand_prices *)

\* if args.on_demand: not taken
OnDemandDisabled ==
    /\ pc = "ondemand"
    /\ ~args.on_demand
    /\ pc' = "sleep"
    /\ UNCHANGED <<call, exception, args, now, last_ondemand_update, backoff_multiplier,
                   zones, types, spot_prices, spot_gauge, on_demand_spot_gauge,
                   spot_error, local_update, tries, sleep_duration, hist>>

\* None + 86400 raises a TypeError, outside the try
OnDemandTypeError ==
    /\ pc = "ondemand"
    /\ args.on_demand
    /\ last_ondemand_update = None
    /\ Terminate("TypeError")
    /\ UNCHANGED <<call, args, now, last_ondemand_update, backoff_multiplier,
                   zones, types, spot_prices, spot_gauge, on_demand_spot_gauge,
                   spot_error, local_update, tries, sleep_duration, hist>>

\* an else branch that projects a feed although the refresh is not due
OnDemandNotDue_Projecting ==
    /\ pc = "ondemand"
    /\ args.on_demand
    /\ last_ondemand_update # None
    /\ ~RefreshDue(last_ondemand_update, now)
    /\ \E parsed_json \in Feeds :
          LET projected ==
                update_ondemand_price_metrics(on_demand_spot_gauge,
                                              get_ondemand_price_metrics(parsed_json),
                                              price_instance_types(spot_prices),
                                              price_zones(spot_prices))
          IN  /\ projected.exc = "none"
              /\ on_demand_spot_gauge' = projected.val
    /\ pc' = "sleep"
    /\ hist' = [hist EXCEPT !.refresh = "not_due", !.eval_at = now]
    /\ UNCHANGED <<call, exception, args, now, last_ondemand_update, backoff_multiplier,
                   zones, types, spot_prices, spot_gauge,
                   spot_error, local_update, tries, sleep_duration>>

\* the else branch: return last_ondemand_update
OnDemandNotDue ==
    /\ pc = "ondemand"
    /\ args.on_demand
    /\ last_ondemand_update # None
    /\ ~RefreshDue(last_ondemand_update, now)
    /\ pc' = "sleep"
    /\ hist' = [hist EXCEPT !.refresh = "not_due", !.eval_at = now]
    /\ UNCHANGED <<call, exception, args, now, last_ondemand_update, backoff_multiplier,
                   zones, types, spot_prices, spot_gauge, on_demand_spot_gauge,
                   spot_error, local_update, tries, sleep_duration>>

\* the if branch, up to the call of get_ondemand_prices_from_api
OnDemandBegin ==
    /\ pc = "ondemand"
    /\ args.on_demand
    /\ last_ondemand_update # None
    /\ RefreshDue(last_ondemand_update, now)
    /\ local_update' = now
    /\ tries' = 0
    /\ pc' = "retrieve"
    /\ hist' = [hist EXCEPT !.refresh = "started", !.eval_at = now]
    /\ UNCHANGED <<call, exception, args, now, last_ondemand_update, backoff_multiplier,
                   zones, types, spot_prices, spot_gauge, on_demand_spot_gauge,
                   spot_error, sleep_duration>>

\* an except branch that only logs
OndemandFailed_Uncounted(cause) ==
    /\ spot_error' = spot_error
    /\ last_ondemand_update' = None
    /\ pc' = "sleep"
    /\ hist' = [hist EXCEPT !.refresh = "failed", !.cause = cause,
                            !.failed_at = local_update]

\* except Exception: count the failure and fall off the end of the function,
\* so that main assigns the None it returns
OndemandFailed(cause) ==
    /\ spot_error' = CounterInc(spot_error, "ondemand_failure")
    /\ last_ondemand_update' = None
    /\ pc' = "sleep"
    /\ hist' = [hist EXCEPT !.refresh = "failed", !.cause = cause,
                            !.failed_at = local_update]

\* a range that yields one value too many
InRange_Inclusive(i, n) == i <= n

\* for _ in range(n): there is an iteration after i iterations
InRange(i, n) == i < n

\* requests.get answers another status: the Exception raised is not a
\* RequestException, so it leaves get_ondemand_prices_from_api at once
RetrieveBadStatus ==
    /\ pc = "retrieve"
    /\ InRange(tries, num_of_retries)
    /\ tries' = tries + 1
    /\ OndemandFailed("status")
    /\ UNCHANGED <<call, exception, args, now, backoff_multiplier,
                   zones, types, spot_prices, spot_gauge, on_demand_spot_gauge,
                   local_update, sleep_duration>>

\* requests.get raises a RequestException: sleep and go round the loop
RetrieveTransportFailure ==
    /\ pc = "retrieve"
    /\ InRange(tries, num_of_retries)
    /\ tries' = tries + 1
    /\ now' = now + time_interval
    /\ UNCHANGED <<call, pc, exception, args, last_ondemand_update, backoff_multiplier,
                   zones, types, spot_prices, spot_gauge, on_demand_spot_gauge,
                   spot_error, local_update, sleep_duration, hist>>

\* the for loop is over: raise Exception("Failed to get ondemand prices ...")
RetriesExhausted ==
    /\ pc = "retrieve"
    /\ ~InRange(tries, num_of_retries)
    /\ OndemandFailed("retries")
    /\ UNCHANGED <<call, exception, args, now, backoff_multiplier,
                   zones, types, spot_prices, spot_gauge, on_demand_spot_gauge,
                   local_update, tries, sleep_duration>>

\* the elements of a set, in some order
RECURSIVE SetToSeq(_)
SetToSeq(S) ==
    IF S = {} THEN <<>>
    ELSE LET x == CHOOSE y \in S : TRUE IN <<x>> \o SetToSeq(S \ {x})

\* a projection over the cluster inventory of the cycle
Projection_Inventory(parsed_json) ==
    update_ondemand_price_metrics(on_demand_spot_gauge,
                                  get_ondemand_price_metrics(parsed_json),
                                  SetToSeq(types), SetToSeq(zones))

\* what update_ondemand_prices passes to update_ondemand_price_metrics
Projection(parsed_json) ==
    update_ondemand_price_metrics(on_demand_spot_gauge,
                                  get_ondemand_price_metrics(parsed_json),
                                  price_instance_types(spot_prices),
                                  price_zones(spot_prices))

\* requests.get answers 200; the table is parsed and projected:
\* return last_ondemand_update
RetrieveOk ==
    /\ pc = "retrieve"
    /\ InRange(tries, num_of_retries)
    /\ tries' = tries + 1
    /\ \E parsed_json \in Feeds :
          /\ Projection(parsed_json).exc = "none"
          /\ on_demand_spot_gauge' = Projection(parsed_json).val
          /\ hist' = [hist EXCEPT !.refresh = "ok",
                                  !.table = get_ondemand_price_metrics(parsed_json)]
    /\ last_ondemand_update' = local_update
    /\ pc' = "sleep"
    /\ UNCHANGED <<call, exception, args, now, backoff_multiplier, zones, types,
                   spot_prices, spot_gauge, spot_error, local_update,
                   sleep_duration>>

\* requests.get answers 200, and prices[region][instance_type] raises a
\* KeyError, caught by except Exception
RetrieveOkKeyError ==
    /\ pc = "retrieve"
    /\ InRange(tries, num_of_retries)
    /\ tries' = tries + 1
    /\ \E parsed_json \in Feeds :
          /\ Projection(parsed_json).exc = "KeyError"
          /\ on_demand_spot_gauge' = Projection(parsed_json).val
    /\ OndemandFailed("KeyError")
    /\ UNCHANGED <<call, exception, args, now, backoff_multiplier, zones, types,
                   spot_prices, spot_gauge, local_update, sleep_duration>>

\* time.sleep(args.scrape_interval * backoff_multiplier)
Sleep ==
    /\ pc = "sleep"
    /\ sleep_duration' = args.scrape_interval * backoff_multiplier
    /\ hist.cycle < MaxCycles
    /\ \E latency \in 0..MaxLatency : now' = now + sleep_duration' + latency
    /\ pc' = "get_zones"
    /\ UNCHANGED <<call, exception, args, last_ondemand_update, backoff_multiplier,
                   zones, types, spot_prices, spot_gauge, on_demand_spot_gauge,
                   spot_error, local_update, tries, hist>>

Next ==
    \/ StartupOk
    \/ StartupError
    \/ GetZones
    \/ GetZonesKeyError
    \/ SpotSuccess
    \/ SpotClientError
    \/ SpotKeyError
    \/ ProjectSpot
    \/ OnDemandDisabled
    \/ OnDemandTypeError
    \/ OnDemandNotDue
    \/ OnDemandBegin
    \/ RetrieveOk
    \/ RetrieveBadStatus
    \/ RetrieveTransportFailure
    \/ RetriesExhausted
    \/ RetrieveOkKeyError
    \/ Sleep

Spec == Init /\ [][Next]_vars

----------------------------------------------------------------------------
(* The label matcher and the region derivation, applied on their own *)

\* the nodes list_node can report
Nodes == UNION Clusters

\* label specifications: those of the command lines, another value, another
\* key, three "="
MatcherLabels ==
    SpotLabels \cup { ROLE_LABEL \o <<"=">> \o WORKER,
                      ZONE_LABEL,
                      <<"a", "=", "b", "=", "c", "=", "d">> }

\* characters of zone names: lowercase, uppercase, digit, hyphen, newline
ZoneChars == {"a", "b", "A", "1", "-", "\n"}

ZoneStrings == UNION { [1..n -> ZoneChars] : n \in 0..MaxZoneLen }

PureInit ==
    /\ pc = "apply"
    /\ exception = "none"
    /\ args \in [spot_label : {SPOT_WORKER}, products : {<<"Linux/UNIX">>},
                 on_demand : {FALSE}, scrape_interval : ScrapeIntervals]
    /\ now \in StartTimes
    /\ last_ondemand_update = 0
    /\ backoff_multiplier = 1
    /\ zones = {}
    /\ types = {}
    /\ spot_prices = <<>>
    /\ spot_gauge = EmptyDict
    /\ on_demand_spot_gauge = EmptyDict
    /\ spot_error = EmptyDict
    /\ local_update = 0
    /\ tries = 0
    /\ sleep_duration = 0
    /\ call = [fn |-> "none"]
    /\ hist = [cycle |-> 0]

\* the label check of main and matches_label, on one label and one node
ApplyMatchesLabel ==
    /\ pc = "apply"
    /\ \E label \in MatcherLabels, node_labels \in Nodes :
          call' = [fn |-> "matches_label", label |-> label,
                   node_labels |-> node_labels,
                   startup |-> check_spot_label(label).exc,
                   result |-> matches_label(label, node_labels)]
    /\ UNCHANGED <<pc, exception, args, now, last_ondemand_update,
                   backoff_multiplier, zones, types, spot_prices, spot_gauge,
                   on_demand_spot_gauge, spot_error, local_update, tries,
                   sleep_duration, hist>>

\* region = re.sub(r"[a-z]$", "", zone), on one zone
ApplyDeriveRegion ==
    /\ pc = "apply"
    /\ \E zone \in ZoneStrings :
          call' = [fn |-> "derive_region", zone |-> zone,
                   result |-> derive_region(zone)]
    /\ UNCHANGED <<pc, exception, args, now, last_ondemand_update,
                   backoff_multiplier, zones, types, spot_prices, spot_gauge,
                   on_demand_spot_gauge, spot_error, local_update, tries,
                   sleep_duration, hist>>

PureNext == ApplyMatchesLabel \/ ApplyDeriveRegion

PureSpec == PureInit /\ [][PureNext]_vars

----------------------------------------------------------------------------
TypeOK ==
    /\ pc \in {"startup", "get_zones", "get_spot", "project_spot", "ondemand",
               "retrieve", "sleep", "terminated"}
    /\ exception \in {"none", "ValueError", "KeyError", "TypeError"}
    /\ tries \in 0..num_of_retries
    /\ backoff_multiplier \in Nat \ {0}
    /\ last_ondemand_update \in Nat \cup {None}
    /\ hist.fetch \in {"none", "ok"} \cup ErrorCodes
    /\ hist.refresh \in {"none", "not_due", "started", "ok", "failed"}
    /\ hist.cause \in {"none", "status", "retries", "KeyError"}

----------------------------------------------------------------------------
(* Properties *)

\* the spot-price fetch of the current cycle has been made
Fetched == hist.fetch # "none"

\* the refresh policy of the current cycle has been evaluated on a time
Evaluated == hist.refresh # "none" /\ hist.last_before # None

\* C1: the multiplier is 1 until the first fetch; a cycle whose fetch fails with
\* RequestLimitExceeded holds twice the multiplier it started with, and a
\* cycle whose fetch succeeds holds 1
C1_BackoffDoublesAndResets ==
    /\ (hist.cycle <= 1 /\ ~Fetched) => backoff_multiplier = 1
    /\ hist.fetch = "RequestLimitExceeded" =>
           backoff_multiplier = 2 * hist.backoff_before
    /\ hist.fetch = "ok" => backoff_multiplier = 1

\* C1: a successful fetch has reset a doubled multiplier
C1_Witness ==
    /\ hist.fetch = "ok"
    /\ hist.backoff_before = 2
    /\ backoff_multiplier = 1

\* C2: once the loop has started the process does not end
C2_LoopNeverTerminates == hist.cycle >= 1 => pc # "terminated"

\* C3: after a refresh attempt started at T has failed, a retrieval is made only
\* by an attempt started at T + 86400 or later, and the refresh policy of the
\* cycles in between does not end the loop
C3_SpentRefresh ==
    hist.failed_at # 0 =>
        /\ pc = "retrieve" => local_update >= hist.failed_at + RefreshSeconds
        /\ ~(pc = "terminated" /\ exception = "TypeError")

\* C4: the loop's last_ondemand_update is a time, never less than at the start
\* of the cycle, and after a refresh attempt it is the time the attempt started
C4_FreshnessIsAttemptTime ==
    /\ last_ondemand_update \in Nat
    /\ last_ondemand_update >= hist.last_before
    /\ hist.refresh \in {"ok", "failed"} => last_ondemand_update = hist.eval_at

\* C5 as stated: the feed is invoked exactly when now - CacheFreshness >= 86400
C5_GatingAtLeastInterval ==
    Evaluated =>
        (hist.refresh # "not_due" <=>
             hist.eval_at - hist.last_before >= RefreshSeconds)

\* C5 as amended: the feed is invoked exactly when now - CacheFreshness > 86400
C5_GatingAfterInterval ==
    Evaluated =>
        (hist.refresh # "not_due" <=>
             hist.eval_at - hist.last_before > RefreshSeconds)

\* C5: a cycle has evaluated the policy at exactly T + 86400 and left the feed alone
C5_Witness ==
    /\ hist.refresh = "not_due"
    /\ hist.last_before # None
    /\ hist.eval_at = hist.last_before + RefreshSeconds

\* C6: an attempt whose retrievals fail gives up only once num_of_retries
\* retrievals have been made, whether they failed by status or by transport
C6_BadStatusRetried ==
    (hist.refresh = "failed" /\ hist.cause \in {"status", "retries"}) =>
        tries >= num_of_retries

\* C7: one refresh attempt makes at most num_of_retries retrievals and reports
\* the exhaustion of its retries only after num_of_retries of them; every step
\* of an attempt is one more retrieval or the end of the attempt (with the
\* table projected or the failure counted), so the attempt ends
C7_BoundedRetrievals ==
    /\ [](/\ tries <= num_of_retries
          /\ hist.cause = "retries" => tries = num_of_retries)
    /\ [][pc = "retrieve" =>
            /\ pc' = "retrieve" => tries' = tries + 1
            /\ pc' # "retrieve" => pc' = "sleep" /\ hist'.refresh \in {"ok", "failed"}
            /\ hist'.refresh = "ok" => tries' = tries + 1 /\ pc' = "sleep"]_vars

\* C7: an attempt has given up after num_of_retries failed retrievals
C7_Witness ==
    /\ pc = "sleep"
    /\ hist.refresh = "failed"
    /\ hist.cause = "retries"
    /\ tries = num_of_retries


\* C8: a refresh whose retrieval succeeded is a successful refresh, whatever
\* pairs the table lacks: no ondemand_failure is counted and the loop holds
\* the attempt's time
C8_AbsentPairSkipped ==
    (hist.refresh \in {"ok", "failed"} /\ hist.cause \notin {"status", "retries"}) =>
        /\ hist.refresh = "ok"
        /\ last_ondemand_update = hist.eval_at
        /\ CounterValue(spot_error, "ondemand_failure")
              = CounterValue(hist.errors_before, "ondemand_failure")

\* C9: a node that lacks a label the inventory looks up does not end the loop
C9_MissingLabelTolerated == ~(pc = "terminated" /\ exception = "KeyError")

\* C10: a cycle whose fetch fails with another code than RequestLimitExceeded
\* counts one more error of that code and holds the multiplier it started with
C10_OtherErrorKeepsBackoff ==
    (Fetched /\ hist.fetch \notin {"ok", "RequestLimitExceeded"}) =>
        /\ backoff_multiplier = hist.backoff_before
        /\ CounterValue(spot_error, hist.fetch)
              = CounterValue(hist.errors_before, hist.fetch) + 1

\* C10: another provider error has left a doubled multiplier as it was
C10_Witness ==
    /\ hist.fetch = "InternalError"
    /\ hist.backoff_before = 2
    /\ backoff_multiplier = 2


\* the (instance_type, availability_zone) pair of a sample
Pair(price) == <<price.InstanceType, price.AvailabilityZone>>

\* the pairs of the samples the loop holds
SamplePairs == {Pair(spot_prices[i]) : i \in 1..Len(spot_prices)}

\* the on-demand step of the current cycle is over
AfterProjection == pc \in {"ondemand", "retrieve", "sleep"}

\* C11: a cycle whose fetch failed with a code has counted 1 for that code and
\* nothing for any other code; a cycle whose fetch succeeded has counted no
\* code; no series appears but that one and, after a failed refresh,
\* ondemand_failure
C11_ErrorCountedOnce ==
    Fetched =>
        /\ \A code \in ErrorCodes :
              CounterValue(spot_error, code)
                 = CounterValue(hist.errors_before, code)
                   + (IF code = hist.fetch THEN 1 ELSE 0)
        /\ DOMAIN spot_error \subseteq
              DOMAIN hist.errors_before
              \cup (IF hist.fetch = "ok" THEN {} ELSE {hist.fetch})
              \cup (IF hist.refresh = "failed" THEN {"ondemand_failure"} ELSE {})

\* C11: an error has been counted next to the count of another code
C11_Witness ==
    /\ hist.fetch = "InternalError"
    /\ CounterValue(hist.errors_before, "RequestLimitExceeded") = 1
    /\ CounterValue(spot_error, "RequestLimitExceeded") = 1
    /\ CounterValue(spot_error, "InternalError") = 1

\* C12: in a cycle whose fetch failed the spot gauge is what it was when the
\* cycle started
C12_FailedFetchKeepsGauge ==
    hist.fetch \in ErrorCodes => spot_gauge = hist.spot_before

\* C12: the projection of a cycle whose fetch failed has run over a gauge
\* that holds series
C12_Witness ==
    /\ hist.fetch \in ErrorCodes
    /\ pc = "ondemand"
    /\ spot_gauge # EmptyDict

\* C13: a series the spot gauge held when the cycle started is still there, and
\* its value has changed only if the loop holds a sample for its pair
C13_NoExpiry ==
    \A key \in DOMAIN hist.spot_before :
        /\ key \in DOMAIN spot_gauge
        /\ spot_gauge[key] # hist.spot_before[key] => key \in SamplePairs

\* C13: a fetch has succeeded without a sample for a pair that has a series,
\* and after the projection the series is as it was
C13_Witness ==
    /\ hist.fetch = "ok"
    /\ AfterProjection
    /\ \E key \in DOMAIN hist.spot_before :
          /\ key \notin SamplePairs
          /\ key \in DOMAIN spot_gauge
          /\ spot_gauge[key] = hist.spot_before[key]

\* C14: after the projection of a successful fetch the series of every
\* returned sample is that sample's price, and the gauge has no series but
\* those of returned samples
C14_GaugeEqualsSamples ==
    (hist.fetch = "ok" /\ AfterProjection) =>
        /\ \A i \in 1..Len(spot_prices) :
              /\ Pair(spot_prices[i]) \in DOMAIN spot_gauge
              /\ spot_gauge[Pair(spot_prices[i])] = spot_prices[i].SpotPrice
        /\ DOMAIN spot_gauge \subseteq DOMAIN hist.spot_before \cup SamplePairs

\* number of "=" in s
RECURSIVE CountEq(_)
CountEq(s) ==
    IF s = <<>> THEN 0
    ELSE (IF Head(s) = "=" THEN 1 ELSE 0) + CountEq(Tail(s))

\* C15: a label k matches exactly the nodes that have the label k; a label k=v
\* matches a node whose label k is v and not one whose label k is something
\* else; a label with more than one "=" is refused at start-up
C15_LabelMatcher ==
    call.fn = "matches_label" =>
        LET label == call.label
            node_labels == call.node_labels
            eq == CHOOSE i \in 1..Len(label) : label[i] = "="
            k == SubSeq(label, 1, eq - 1)
            v == SubSeq(label, eq + 1, Len(label))
        IN  /\ CountEq(label) = 0 =>
                /\ call.result.exc = "none"
                /\ call.result.val = (label \in DOMAIN node_labels)
            /\ (CountEq(label) = 1 /\ k \in DOMAIN node_labels) =>
                /\ call.result.exc = "none"
                /\ call.result.val = (node_labels[k] = v)
            /\ CountEq(label) > 1 <=> call.startup = "ValueError"

\* C15: a label k=v has been tried on a node whose label k has another value
C15_Witness ==
    /\ call.fn = "matches_label"
    /\ call.label = ROLE_LABEL \o <<"=">> \o SPOT_WORKER
    /\ ROLE_LABEL \in DOMAIN call.node_labels
    /\ call.node_labels[ROLE_LABEL] = WORKER
    /\ call.result.val = FALSE

\* the command line is one that main refuses
InvalidConfig ==
    \/ CountEq(args.spot_label) > 1
    \/ \E i \in 1..Len(args.products) : args.products[i] \notin ALLOWED_PRODUCTS

\* C16: with a label of more than one "=" or a product outside the allowed set
\* the process ends with a ValueError before the first cycle: no inventory,
\* no prices, no series and no count
C16_ConfigErrorFatalAtStartup ==
    (InvalidConfig /\ pc # "apply") =>
        /\ pc \in {"startup", "terminated"}
        /\ pc = "terminated" => exception = "ValueError"
        /\ hist.cycle = 0
        /\ zones = {} /\ types = {} /\ spot_prices = <<>>
        /\ spot_gauge = EmptyDict
        /\ on_demand_spot_gauge = EmptyDict
        /\ spot_error = EmptyDict

\* C16: a command line whose label is well formed and whose second product is
\* not allowed has been refused
C16_Witness ==
    /\ pc = "terminated"
    /\ exception = "ValueError"
    /\ CountEq(args.spot_label) <= 1
    /\ args.products[1] \in ALLOWED_PRODUCTS

\* C17: ondemand_failure has grown by 1 in a cycle whose refresh failed and not
\* at all in any other cycle, and no step of the refresh changes the
\* multiplier or the spot gauge
C17_OndemandFailureCounted ==
    /\ [](hist.cycle >= 1 =>
             CounterValue(spot_error, "ondemand_failure")
                = CounterValue(hist.errors_before, "ondemand_failure")
                  + (IF hist.refresh = "failed" THEN 1 ELSE 0))
    /\ [][(pc = "ondemand" \/ pc = "retrieve") =>
             /\ backoff_multiplier' = backoff_multiplier
             /\ spot_gauge' = spot_gauge]_vars

\* C17: a refresh has failed in a cycle that doubled the multiplier
C17_Witness ==
    /\ pc = "sleep"
    /\ hist.refresh = "failed"
    /\ CounterValue(spot_error, "ondemand_failure") = 1
    /\ backoff_multiplier = 2
    /\ spot_gauge = hist.spot_before

\* C18: after a successful refresh every type and zone of the samples the loop
\* holds that the table prices together has its series at the table's price;
\* a series that is new has its type and its zone among those of the samples,
\* and a series that is not of those types and zones is as it was
C18_ProjectionUsesSamples ==
    hist.refresh = "ok" =>
        LET sample_types == {spot_prices[i].InstanceType : i \in 1..Len(spot_prices)}
            sample_zones == {spot_prices[i].AvailabilityZone : i \in 1..Len(spot_prices)}
        IN  /\ \A A \in sample_types, Z \in sample_zones :
                  InTable(hist.table, A, Z) =>
                      /\ <<A, Z>> \in DOMAIN on_demand_spot_gauge
                      /\ on_demand_spot_gauge[<<A, Z>>]
                            = hist.table[derive_region(Z)][A]
            /\ \A key \in DOMAIN on_demand_spot_gauge :
                  \/ key[1] \in sample_types /\ key[2] \in sample_zones
                  \/ /\ key \in DOMAIN hist.ondemand_before
                     /\ on_demand_spot_gauge[key] = hist.ondemand_before[key]

\* C18: a refresh has set the series of the sampled pair and none for a zone
\* that only the inventory has
C18_Witness ==
    /\ hist.refresh = "ok"
    /\ ZoneB \in zones
    /\ \A i \in 1..Len(spot_prices) : spot_prices[i].AvailabilityZone # ZoneB
    /\ <<M5, ZoneA>> \in DOMAIN on_demand_spot_gauge
    /\ <<M5, ZoneB>> \notin DOMAIN on_demand_spot_gauge

\* zone ends in a lowercase letter
EndsInLowerCase(zone) == Len(zone) >= 1 /\ zone[Len(zone)] \in LowerCase

\* result is zone without the character at position i
Without(zone, i, result) ==
    /\ Len(result) = Len(zone) - 1
    /\ \A j \in 1..Len(result) : result[j] = zone[IF j < i THEN j ELSE j + 1]

\* C19 as stated: a zone that ends in a lowercase letter loses its last
\* character and every other string is returned unchanged
C19_RegionStripsLastLetter ==
    call.fn = "derive_region" =>
        IF EndsInLowerCase(call.zone)
        THEN Without(call.zone, Len(call.zone), call.result)
        ELSE call.result = call.zone

\* C19 as amended: moreover a string that ends in a lowercase letter and one
\* newline loses that letter and keeps the newline
C19_RegionStripsLetterAtEnd ==
    call.fn = "derive_region" =>
        LET zone == call.zone
            n == Len(zone)
        IN  IF EndsInLowerCase(zone)
            THEN Without(zone, n, call.result)
            ELSE IF n >= 2 /\ zone[n] = "\n" /\ zone[n - 1] \in LowerCase
            THEN Without(zone, n - 1, call.result)
            ELSE call.result = zone

\* C19: of two trailing lowercase letters only the last one has been removed
C19_Witness ==
    /\ call.fn = "derive_region"
    /\ Len(call.zone) = 3
    /\ call.zone[2] \in LowerCase
    /\ call.zone[3] \in LowerCase
    /\ call.result = SubSeq(call.zone, 1, 2)


\* C20: a cycle that has fetched goes on to its sleep, and the sleep that ends
\* a cycle lasts scrape_interval times the multiplier the cycle left:
\* scrape_interval after a successful fetch, twice the multiplier of the
\* cycle's start after RequestLimitExceeded
C20_CycleEndsWithSleep ==
    /\ Fetched => pc # "terminated"
    /\ (pc = "get_zones" /\ hist.cycle >= 1) =>
          /\ sleep_duration = args.scrape_interval * backoff_multiplier
          /\ hist.fetch = "ok" => sleep_duration = args.scrape_interval
          /\ hist.fetch = "RequestLimitExceeded" =>
                sleep_duration = args.scrape_interval * 2 * hist.backoff_before

\* 2 to the power k
RECURSIVE Pow2(_)
Pow2(k) == IF k = 0 THEN 1 ELSE 2 * Pow2(k - 1)

\* C21: the multiplier is 2 to the number of rate-limited cycles since the
\* last successful fetch, or since the start: a power of two, at least 1,
\* that doubles with every further rate-limited cycle however many came before
C21_BackoffIsPowerOfTwo ==
    /\ backoff_multiplier = Pow2(hist.limited)
    /\ backoff_multiplier >= 1
    /\ (pc = "get_zones" /\ hist.cycle >= 1) =>
          sleep_duration = args.scrape_interval * Pow2(hist.limited)

\* C21: every cycle of the run has been rate limited: the multiplier has
\* doubled in each, and the sleep before the last cycle had the length of
\* the cycles before it
C21_Witness ==
    /\ pc = "sleep"
    /\ hist.cycle = MaxCycles
    /\ hist.limited = MaxCycles
    /\ backoff_multiplier = Pow2(MaxCycles)
    /\ sleep_duration = args.scrape_interval * Pow2(MaxCycles - 1)

\* C22: while the cycle has not retrieved a feed (on-demand mode is off, the
\* refresh is not due, the retrieval is under way or has failed) the on-demand
\* gauge is what it was when the cycle started; the feed is retrieved only
\* with on-demand mode on and a refresh that is due
C22_OndemandGaugeFrame ==
    /\ []((\/ hist.refresh \in {"none", "not_due", "started"}
           \/ hist.cause \in {"status", "retries"}) =>
              on_demand_spot_gauge = hist.ondemand_before)
    /\ [](pc = "retrieve" =>
              /\ args.on_demand
              /\ hist.refresh = "started"
              /\ last_ondemand_update # None
              /\ RefreshDue(last_ondemand_update, local_update))
    /\ [][tries' = tries + 1 => pc = "retrieve"]_vars

\* C22: a cycle whose refresh was not due has ended with samples of a pair
\* that has no series, next to the series of an earlier refresh
C22_Witness ==
    /\ pc = "sleep"
    /\ hist.refresh = "not_due"
    /\ on_demand_spot_gauge # EmptyDict
    /\ on_demand_spot_gauge = hist.ondemand_before
    /\ \E key \in SamplePairs : key \notin DOMAIN on_demand_spot_gauge

\* C23: with on-demand mode on, the first cycle is never "not due" and its
\* on-demand step retrieves the feed, whatever its fetch did; a refresh that
\* succeeds over an empty sample list sets no series and still records its
\* time; and the on-demand gauge changes only in a cycle at least 86400
\* seconds after the time recorded before it
C23_FirstCycleRefreshes ==
    /\ (hist.cycle = 1 /\ args.on_demand) =>
          /\ hist.refresh # "not_due"
          /\ pc \in {"retrieve", "sleep"} =>
                hist.refresh \in {"started", "ok", "failed"}
    /\ (hist.refresh = "ok" /\ spot_prices = <<>>) =>
          /\ on_demand_spot_gauge = hist.ondemand_before
          /\ last_ondemand_update = hist.eval_at
    /\ on_demand_spot_gauge # hist.ondemand_before =>
          hist.eval_at >= hist.last_before + RefreshSeconds

\* C23: the first cycle's fetch failed and its refresh succeeded over an
\* empty sample list; the second cycle has samples, its refresh is not due,
\* and the on-demand gauge is still empty
C23_Witness ==
    /\ pc = "sleep"
    /\ hist.cycle = 2
    /\ CounterValue(hist.errors_before, "InternalError") = 1
    /\ hist.spot_before = EmptyDict
    /\ hist.last_before > 0
    /\ hist.fetch = "ok"
    /\ spot_prices # <<>>
    /\ hist.refresh = "not_due"
    /\ on_demand_spot_gauge = EmptyDict

====
